---------------------------- MODULE Spec2Model ----------------------------
(***************************************************************************)
(* Sk4pxXfermode.h: the 4-pixels-at-a-time transfer-mode kernels, their    *)
(* coverage (AA) wrapper, the xfer32 loop of SkT4pxXfermode and the        *)
(* factory SkCreate4pxXfermode.                                            *)
(*                                                                         *)
(* A pixel is a tuple <<b, g, r, a>> of bytes (a narrow Sk4px lane); a     *)
(* widened pixel is a tuple of four 16-bit values (an Sk4px::Wide lane).   *)
(* Every Sk4px operation used by the kernels acts on each pixel of the     *)
(* vector on its own, so a kernel is written on one pixel and the xfer32   *)
(* loop applies it to each lane of the group it has loaded.                *)
(***************************************************************************)
EXTENDS Integers, Sequences, FiniteSets

VARIABLES build, requested, xfermode, dst, src, aa, dst0, src0, aa0, writes,
          calls, pc, n, off, done

vars == <<build, requested, xfermode, dst, src, aa, dst0, src0, aa0, writes,
          calls, pc, n, off, done>>

----------------------------------------------------------------------------
(* Bounds of the model *)

\* longest dst/src buffer handed to xfer32
MaxN == 6
\* how far the sampled channel values reach from 0 and from 255
Spread == 2
\* number of the different buffer fillings, less one
MaxSeed == 1

----------------------------------------------------------------------------
(* Sk4px: the pixel vector primitive (Sk4px.h) *)

Lanes == 1..4

\* the largest 8-bit channel value
ByteMax == 255
\* the number of values of a 16-bit lane, and of an 8-bit lane
Wide16 == 65536
Narrow8 == 256

Min2(x, y) == IF x < y THEN x ELSE y

\* Sk4px::DupPMColor(c) for a colour whose four bytes are all c
DupPMColor(c) == [i \in Lanes |-> c]

\* ARGB -> AAAA
Alphas(p) == [i \in Lanes |-> p[4]]

\* Sk16b(255) - *this
Inv(p) == [i \in Lanes |-> ByteMax - p[i]]

ZeroAlphas(p) == [i \in Lanes |-> IF i = 4 THEN 0 ELSE p[i]]

ZeroColors(p) == [i \in Lanes |-> IF i = 4 THEN p[i] ELSE 0]

\* 8-bit lanes: + and - wrap, saturatedAdd clamps
Add8(p, q) == [i \in Lanes |-> (p[i] + q[i]) % Narrow8]

Sub8(p, q) == [i \in Lanes |-> (p[i] - q[i]) % Narrow8]

SaturatedAdd(p, q) == [i \in Lanes |-> Min2(ByteMax, p[i] + q[i])]

\* 8-bit x 8-bit -> 16-bit
MulWiden(p, q) == [i \in Lanes |-> p[i] * q[i]]

\* 16-bit lanes: +, -, << 1 wrap
WAdd(x, y) == [i \in Lanes |-> (x[i] + y[i]) % Wide16]

WSub(x, y) == [i \in Lanes |-> (x[i] - y[i]) % Wide16]

WShl1(x) == [i \in Lanes |-> (2 * x[i]) % Wide16]

WMin(x, y) == [i \in Lanes |-> Min2(x[i], y[i])]

\* Wide::div255: the rounded exact x / 255, narrowed to 8 bits
Div255(x) == [i \in Lanes |-> ((2 * x[i] + ByteMax) \div (2 * ByteMax)) % Narrow8]

\* a fast x * y / 255: exact when x or y is 0 or 255, within 1 elsewhere;
\* (x*y + x) / 256
ApproxMulDiv255(p, q) == [i \in Lanes |-> (p[i] * q[i] + p[i]) \div Narrow8]

\* element-wise compare: a mask of all-ones or all-zero bytes
Lt(p, q) == [i \in Lanes |-> IF p[i] < q[i] THEN ByteMax ELSE 0]

\* ARGB -> AA RR GG BB: each byte doubled into its 16-bit lane
WidenLoHi(p) == [i \in Lanes |-> p[i] * Narrow8 + p[i]]

\* a lane of the mask is all ones or all zeros: take t or e
ThenElse(mask, t, e) == [i \in Lanes |-> IF mask[i] # 0 THEN t[i] ELSE e[i]]

----------------------------------------------------------------------------
(* The transfer-mode kernels: Name::Xfer(s, d) *)

Clear(s, d) == DupPMColor(0)

Src(s, d) == s

Dst(s, d) == d

SrcIn(s, d) == ApproxMulDiv255(s, Alphas(d))

\* SrcOut with the inv() of the destination alpha left out
SrcOut_NoInv(s, d) == ApproxMulDiv255(s, Alphas(d))

SrcOut(s, d) == ApproxMulDiv255(s, Inv(Alphas(d)))

\* SrcOver scaling the destination by the wrong pixel's alpha
SrcOver_DstAlpha(s, d) == Add8(s, ApproxMulDiv255(d, Inv(Alphas(d))))

SrcOver(s, d) == Add8(s, ApproxMulDiv255(d, Inv(Alphas(s))))

DstIn(s, d) == SrcIn(d, s)

DstOut(s, d) == SrcOut(d, s)

DstOver(s, d) == SrcOver(d, s)

\* the wide sum SrcATop hands to div255
SrcATopWide(s, d) == WAdd(MulWiden(s, Alphas(d)), MulWiden(d, Inv(Alphas(s))))

SrcATop(s, d) == Div255(SrcATopWide(s, d))

DstATop(s, d) == SrcATop(d, s)

XorWide(s, d) == WAdd(MulWiden(s, Inv(Alphas(d))), MulWiden(d, Inv(Alphas(s))))

Xor(s, d) == Div255(XorWide(s, d))

Plus(s, d) == SaturatedAdd(s, d)

Modulate(s, d) == ApproxMulDiv255(s, d)

Screen(s, d) == Add8(s, ApproxMulDiv255(d, Inv(s)))

MultiplyWide(s, d) == WAdd(XorWide(s, d), MulWiden(s, d))

Multiply(s, d) == Div255(MultiplyWide(s, d))

\* Difference taking the larger of the two products
DifferenceM_Max(s, d) ==
    Div255([i \in Lanes |-> IF MulWiden(s, Alphas(d))[i] < MulWiden(d, Alphas(s))[i]
                            THEN MulWiden(d, Alphas(s))[i]
                            ELSE MulWiden(s, Alphas(d))[i]])

\* m of Difference
DifferenceM(s, d) == Div255(WMin(MulWiden(s, Alphas(d)), MulWiden(d, Alphas(s))))

Difference(s, d) ==
    LET m == DifferenceM(s, d)
    IN  Add8(Sub8(s, m), Sub8(d, ZeroAlphas(m)))

ExclusionP(s, d) == ApproxMulDiv255(s, d)

\* Exclusion subtracting p from the destination alpha as well
Exclusion_NoZeroAlphas(s, d) ==
    LET p == ExclusionP(s, d)
    IN  Add8(Sub8(s, p), Sub8(d, p))

Exclusion(s, d) ==
    LET p == ExclusionP(s, d)
    IN  Add8(Sub8(s, p), Sub8(d, ZeroAlphas(p)))

\* srcover with the inv() of the source alpha left out
ExactSrcOver_NoInv(s, d) == Add8(s, Div255(MulWiden(d, Alphas(s))))

\* srcover of HardLight, Darken and Lighten: s + (d * sa.inv()).div255()
ExactSrcOver(s, d) == Add8(s, Div255(MulWiden(d, Inv(Alphas(s)))))

\* the lightness test the wrong way round
HardLightIsLite_Flipped(s, d) == WidenLoHi(Lt(s, Sub8(Alphas(s), s)))

HardLightIsLite(s, d) == WidenLoHi(Lt(Sub8(Alphas(s), s), s))

\* (da-d)*(sa-s) << 1, the term lite subtracts
HardLightLiteTerm(s, d) ==
    WShl1(MulWiden(Sub8(Alphas(d), d), Sub8(Alphas(s), s)))

HardLightLite(s, d) ==
    WSub(MulWiden(Alphas(s), Alphas(d)), HardLightLiteTerm(s, d))

HardLightDark(s, d) == WShl1(MulWiden(s, d))

HardLightBoth(s, d) == XorWide(s, d)

\* both + isLite.thenElse(lite, dark)
HardLightSum(s, d) ==
    WAdd(HardLightBoth(s, d),
         ThenElse(HardLightIsLite(s, d), HardLightLite(s, d), HardLightDark(s, d)))

HardLight(s, d) ==
    LET alphas == ExactSrcOver(s, d)
        colors == Div255(HardLightSum(s, d))
    IN  Add8(ZeroColors(alphas), ZeroAlphas(colors))

Overlay(s, d) == HardLight(d, s)

Darken(s, d) ==
    LET sda == Div255(MulWiden(s, Alphas(d)))
        dsa == Div255(MulWiden(d, Alphas(s)))
        srcover == ExactSrcOver(s, d)
        dstover == ExactSrcOver(d, s)
        alphas == srcover
        colors == ThenElse(Lt(sda, dsa), srcover, dstover)
    IN  Add8(ZeroColors(alphas), ZeroAlphas(colors))

Lighten(s, d) ==
    LET sda == Div255(MulWiden(s, Alphas(d)))
        dsa == Div255(MulWiden(d, Alphas(s)))
        srcover == ExactSrcOver(s, d)
        dstover == ExactSrcOver(d, s)
        alphas == srcover
        colors == ThenElse(Lt(dsa, sda), srcover, dstover)
    IN  Add8(ZeroColors(alphas), ZeroAlphas(colors))

\* ProcType::Xfer for the kernel struct named proc
Xfer(proc, s, d) ==
    CASE proc = "Clear"      -> Clear(s, d)
      [] proc = "Src"        -> Src(s, d)
      [] proc = "Dst"        -> Dst(s, d)
      [] proc = "SrcIn"      -> SrcIn(s, d)
      [] proc = "SrcOut"     -> SrcOut(s, d)
      [] proc = "SrcOver"    -> SrcOver(s, d)
      [] proc = "DstIn"      -> DstIn(s, d)
      [] proc = "DstOut"     -> DstOut(s, d)
      [] proc = "DstOver"    -> DstOver(s, d)
      [] proc = "SrcATop"    -> SrcATop(s, d)
      [] proc = "DstATop"    -> DstATop(s, d)
      [] proc = "Xor"        -> Xor(s, d)
      [] proc = "Plus"       -> Plus(s, d)
      [] proc = "Modulate"   -> Modulate(s, d)
      [] proc = "Screen"     -> Screen(s, d)
      [] proc = "Multiply"   -> Multiply(s, d)
      [] proc = "Difference" -> Difference(s, d)
      [] proc = "Exclusion"  -> Exclusion(s, d)
      [] proc = "HardLight"  -> HardLight(s, d)
      [] proc = "Overlay"    -> Overlay(s, d)
      [] proc = "Darken"     -> Darken(s, d)
      [] proc = "Lighten"    -> Lighten(s, d)

----------------------------------------------------------------------------
(* The coverage wrapper *)

\* the interpolation with the inv() of the coverage left out
XferAAWide_NoInv(bw, d, cov) == WAdd(MulWiden(bw, cov), MulWiden(d, cov))

\* bw * aa + d * aa.inv() of the generic xfer_aa
XferAAWide(bw, d, cov) == WAdd(MulWiden(bw, cov), MulWiden(d, Inv(cov)))

\* template <typename Mode> xfer_aa
XferAAGeneric(proc, s, d, cov) == Div255(XferAAWide(Xfer(proc, s, d), d, cov))

\* XFERMODE_AA(Plus)
XferAAPlus(s, d, cov) == SaturatedAdd(d, ApproxMulDiv255(s, cov))

\* xfer_aa with the Plus specialization lost
XferAA_NoSpecialization(proc, s, d, cov) ==
    Div255(XferAAWide(Xfer(proc, s, d), d, cov))

\* xfer_aa<ProcType>: the specialization where there is one
XferAA(proc, s, d, cov) ==
    IF proc = "Plus" THEN XferAAPlus(s, d, cov)
                     ELSE XferAAGeneric(proc, s, d, cov)

----------------------------------------------------------------------------
(* SkT4pxXfermode and the factory *)

\* SkXfermode::Mode: the modes this file has a kernel for, and the others
LegacyGatedModes == {"HardLight", "Overlay", "Darken", "Lighten"}

KernelModes ==
    {"Clear", "Src", "Dst", "SrcOver", "DstOver", "SrcIn", "DstIn", "SrcOut",
     "DstOut", "SrcATop", "DstATop", "Xor", "Plus", "Modulate", "Screen",
     "Multiply", "Difference", "Exclusion"} \cup LegacyGatedModes

OtherModes ==
    {"ColorDodge", "ColorBurn", "SoftLight", "Hue", "Saturation", "Color",
     "Luminosity"}

AllModes == KernelModes \cup OtherModes

nullptr == [proc |-> "nullptr", kMode |-> "nullptr"]

\* XFERMODE(Name): kMode = SkXfermode::k##Name##_Mode
KMode(name) == name

\* SkT4pxXfermode<ProcType>::Create(rec)
Create(proc) == [proc |-> proc, kMode |-> KMode(proc)]

\* the architecture gate with && for ||
Sk4pxEnabled_And(bld) == ~bld.arm32 /\ bld.neon

\* #if !defined(SK_CPU_ARM32) || defined(SK_ARM_HAS_NEON)
Sk4pxEnabled(bld) == ~bld.arm32 \/ bld.neon

\* #if !defined(SK_SUPPORT_LEGACY_XFERMODES)
LegacyCasesCompiled(bld) == ~bld.legacy

SkCreate4pxXfermode(bld, mode) ==
    IF Sk4pxEnabled(bld)
    THEN CASE mode = "Clear"      -> Create("Clear")
           [] mode = "Src"        -> Create("Src")
           [] mode = "Dst"        -> Create("Dst")
           [] mode = "SrcOver"    -> Create("SrcOver")
           [] mode = "DstOver"    -> Create("DstOver")
           [] mode = "SrcIn"      -> Create("SrcIn")
           [] mode = "DstIn"      -> Create("DstIn")
           [] mode = "SrcOut"     -> Create("SrcOut")
           [] mode = "DstOut"     -> Create("DstOut")
           [] mode = "SrcATop"    -> Create("SrcATop")
           [] mode = "DstATop"    -> Create("DstATop")
           [] mode = "Xor"        -> Create("Xor")
           [] mode = "Plus"       -> Create("Plus")
           [] mode = "Modulate"   -> Create("Modulate")
           [] mode = "Screen"     -> Create("Screen")
           [] mode = "Multiply"   -> Create("Multiply")
           [] mode = "Difference" -> Create("Difference")
           [] mode = "Exclusion"  -> Create("Exclusion")
           [] mode = "HardLight" /\ LegacyCasesCompiled(bld) -> Create("HardLight")
           [] mode = "Overlay"   /\ LegacyCasesCompiled(bld) -> Create("Overlay")
           [] mode = "Darken"    /\ LegacyCasesCompiled(bld) -> Create("Darken")
           [] mode = "Lighten"   /\ LegacyCasesCompiled(bld) -> Create("Lighten")
           [] OTHER -> nullptr
    ELSE nullptr

\* the coverage vector of one pixel: its byte in all four lanes
LoadAlpha(a) == [i \in Lanes |-> a]

\* the lambda passing its arguments on in the order it got them
Xfer32Fn_Unswapped(proc, dst4, src4) == Xfer(proc, dst4, src4)

\* the lambda xfer32 hands to MapDstSrc
Xfer32Fn(proc, dst4, src4) == Xfer(proc, src4, dst4)

\* the lambda xfer32 hands to MapDstSrcAlpha
Xfer32FnAA(proc, dst4, src4, alpha) == XferAA(proc, src4, dst4, alpha)

\* the pixels of one step of Sk4px::MapDstSrc / MapDstSrcAlpha: a group of
\* four, or the tail
GroupSize(cnt) == Min2(4, cnt)

\* dst after fn has been applied to the group of cnt pixels at offset o
MapGroup(proc, o, cnt, d, s, cov) ==
    [i \in 1..Len(d) |->
        IF i > o /\ i <= o + cnt
        THEN IF cov.null THEN Xfer32Fn(proc, d[i], s[i])
                         ELSE Xfer32FnAA(proc, d[i], s[i], LoadAlpha(cov.data[i]))
        ELSE d[i]]

----------------------------------------------------------------------------
(* The inputs *)

\* the sampled channel values
Samples ==
    {b \in 0..ByteMax : b <= Spread \/ b >= ByteMax - Spread \/ b \in {128, 200}}

\* a premultiplied pixel from one colour value c <= a
Pixel(c, a) == <<c, a - c, a, a>>

PremulPixels ==
    UNION {{Pixel(c, a) : c \in {x \in Samples : x <= a}} : a \in Samples}

IsPremul(p) == \A i \in 1..3 : p[i] <= p[4]

Builds == [arm32 : BOOLEAN, neon : BOOLEAN, legacy : BOOLEAN]

DefaultBuild == [arm32 |-> FALSE, neon |-> FALSE, legacy |-> FALSE]

Palette ==
    <<Pixel(0, 0), Pixel(128, 255), Pixel(200, 200), Pixel(1, 128),
      Pixel(255, 255), Pixel(0, 254), Pixel(128, 200)>>

CoveragePalette == <<255, 0, 128, 1, 254>>

FillSrc(len, seed) ==
    [i \in 1..len |-> Palette[((i + seed) % Len(Palette)) + 1]]

FillDst(len, seed) ==
    [i \in 1..len |-> Palette[((3 * i + 2 * seed) % Len(Palette)) + 1]]

FillAA(len, seed) ==
    [i \in 1..len |-> CoveragePalette[((i + seed) % Len(CoveragePalette)) + 1]]

NoAA == [null |-> TRUE, data |-> <<>>]

----------------------------------------------------------------------------
(* The state machine *)

Start(b, d, s, cov) ==
    /\ build = b
    /\ requested = "none"
    /\ xfermode = nullptr
    /\ dst = d /\ dst0 = d
    /\ src = s /\ src0 = s
    /\ aa = cov /\ aa0 = cov
    /\ writes = [i \in 1..Len(d) |-> 0]
    /\ calls = <<>>
    /\ pc = "start"
    /\ n = 0 /\ off = 0 /\ done = 0

\* buffers of 0..MaxN pixels on every build
Init ==
    \E b \in Builds, len \in 0..MaxN, seed \in 0..MaxSeed, withAA \in BOOLEAN :
        Start(b, FillDst(len, seed), FillSrc(len, seed),
              IF withAA THEN [null |-> FALSE, data |-> FillAA(len, seed)]
                        ELSE NoAA)

\* one pixel, every sampled premultiplied source and destination
KernelInit ==
    \E s \in PremulPixels, d \in PremulPixels :
        \/ Start(DefaultBuild, <<d>>, <<s>>, NoAA)
        \/ \E c \in Samples :
              Start(DefaultBuild, <<d>>, <<s>>, [null |-> FALSE, data |-> <<c>>])

\* SkCreate4pxXfermode(rec, mode)
CreateXfermode(mode) ==
    /\ pc = "start"
    /\ requested' = mode
    /\ xfermode' = SkCreate4pxXfermode(build, mode)
    /\ pc' = "idle"
    /\ UNCHANGED <<build, dst, src, aa, dst0, src0, aa0, writes, calls, n, off,
                   done>>

\* xfer32(dst + done, src + done, len, aa + done) is entered: the next
\* sub-range of the buffer, or the whole of an empty buffer
Xfer32Call(len) ==
    /\ pc = "idle"
    /\ xfermode # nullptr
    /\ done + len <= Len(dst)
    /\ len > 0 \/ (Len(dst) = 0 /\ calls = <<>>)
    /\ calls' = Append(calls, len)
    /\ pc' = "running"
    /\ n' = len
    /\ off' = done
    /\ UNCHANGED <<build, requested, xfermode, dst, src, aa, dst0, src0, aa0,
                   writes, done>>

\* one group of the loop: load, apply, store, advance
Xfer32Step ==
    /\ pc = "running"
    /\ n > 0
    /\ dst' = MapGroup(xfermode.proc, off, GroupSize(n), dst, src, aa)
    /\ writes' = [i \in 1..Len(dst) |->
                    IF i > off /\ i <= off + GroupSize(n)
                    THEN writes[i] + 1 ELSE writes[i]]
    /\ off' = off + GroupSize(n)
    /\ n' = n - GroupSize(n)
    /\ UNCHANGED <<build, requested, xfermode, src, aa, dst0, src0, aa0, calls,
                   pc, done>>

\* xfer32 returns
Xfer32Return ==
    /\ pc = "running"
    /\ n = 0
    /\ pc' = "idle"
    /\ done' = off
    /\ UNCHANGED <<build, requested, xfermode, dst, src, aa, dst0, src0, aa0,
                   writes, calls, n, off>>

Next ==
    \/ \E mode \in AllModes : CreateXfermode(mode)
    \/ \E len \in 0..MaxN : Xfer32Call(len)
    \/ Xfer32Step
    \/ Xfer32Return

Spec == Init /\ [][Next]_vars

SpecKernel == KernelInit /\ [][Next]_vars

\* xfer32 has been called, and every pixel of the buffers has been through it
Finished ==
    pc = "idle" /\ xfermode # nullptr /\ calls # <<>> /\ done = Len(dst)

----------------------------------------------------------------------------
(* Properties *)

Pixels == 1..Len(dst)

Zero == DupPMColor(0)

\* xfer32 has run over the whole buffer without / with a coverage buffer
FinishedNoAA == Finished /\ aa0.null

FinishedAA == Finished /\ ~aa0.null

\* the exact results of the 16-bit and 8-bit operations, before they wrap
RawAdd(x, y) == [i \in Lanes |-> x[i] + y[i]]

RawSub(x, y) == [i \in Lanes |-> x[i] - y[i]]

RawShl1(x) == [i \in Lanes |-> 2 * x[i]]

FitsWide(x) == \A i \in Lanes : x[i] >= 0 /\ x[i] < Wide16

FitsNarrow(x) == \A i \in Lanes : x[i] >= 0 /\ x[i] <= ByteMax

\* sa + da - (sa*da)/255, with the rounded exact division of div255
SrcOverAlpha(s, d) == s[4] + d[4] - Div255(MulWiden(Alphas(s), Alphas(d)))[4]

\* C1: when xfer32 has blended premultiplied pixels with no coverage, in any
\* of the 22 modes, every colour byte of a result is at most its alpha byte.
C1_PremulPreserved ==
    FinishedNoAA => \A i \in Pixels : IsPremul(dst[i])

C1_Witness ==
    /\ FinishedNoAA
    /\ xfermode.proc = "Exclusion"
    /\ src0[1] = Pixel(128, 255)
    /\ dst0[1] = Pixel(128, 255)
    /\ dst[1] = <<128, 128, 0, 255>>

\* the modes whose alpha is computed with exact math, and those whose alpha
\* goes through approxMulDiv255
ExactOverModes ==
    {"Multiply", "Difference", "HardLight", "Overlay", "Darken", "Lighten"}

ApproxOverModes == {"SrcOver", "DstOver", "Exclusion"}

\* C2 as stated: in every mode but Clear, Src, Dst, Modulate, Plus and
\* Screen the alpha byte of the result is sa + da - (sa*da)/255.
C2_AlphaAllModes ==
    FinishedNoAA /\ xfermode.proc \notin {"Clear", "Src", "Dst", "Modulate", "Plus", "Screen"}
        => \A i \in Pixels : dst[i][4] = SrcOverAlpha(src0[i], dst0[i])

\* C2 as amended: the alpha byte of the result is sa + da - (sa*da)/255
\* in Multiply, Difference, HardLight, Overlay, Darken and Lighten, is within
\* 1 of it in SrcOver, DstOver and Exclusion, and is the destination's alpha
\* in SrcATop and the source's in DstATop.
C2_AlphaOverModes ==
    FinishedNoAA =>
        \A i \in Pixels :
            /\ xfermode.proc \in ExactOverModes
                  => dst[i][4] = SrcOverAlpha(src0[i], dst0[i])
            /\ xfermode.proc \in ApproxOverModes
                  => dst[i][4] - SrcOverAlpha(src0[i], dst0[i]) \in {-1, 0, 1}
            /\ xfermode.proc = "SrcATop" => dst[i][4] = dst0[i][4]
            /\ xfermode.proc = "DstATop" => dst[i][4] = src0[i][4]

C2_Witness ==
    /\ FinishedNoAA
    /\ xfermode.proc = "HardLight"
    /\ src0[1][4] = 128
    /\ dst0[1][4] = 200
    /\ dst[1][4] = 228

\* the wide operations of the kernel, each on the operands it gets: TRUE when
\* none of the exact results leaves 0..65535. In HardLight `unselected` says
\* whether the lanes thenElse drops are looked at too.
HardLightFits(s, d, unselected) ==
    LET isLite == HardLightIsLite(s, d)
        term == MulWiden(Sub8(Alphas(d), d), Sub8(Alphas(s), s))
        lite == RawSub(MulWiden(Alphas(s), Alphas(d)), HardLightLiteTerm(s, d))
        dark == RawShl1(MulWiden(s, d))
        both == RawAdd(MulWiden(s, Inv(Alphas(d))), MulWiden(d, Inv(Alphas(s))))
        sum  == RawAdd(HardLightBoth(s, d),
                       ThenElse(isLite, HardLightLite(s, d), HardLightDark(s, d)))
    IN  /\ FitsWide(both)
        /\ FitsWide(sum)
        /\ \A i \in Lanes :
              /\ unselected \/ isLite[i] # 0
                    => /\ 2 * term[i] < Wide16
                       /\ lite[i] >= 0 /\ lite[i] < Wide16
              /\ unselected \/ isLite[i] = 0
                    => dark[i] < Wide16

KernelFits(proc, s, d, unselected) ==
    CASE proc = "SrcATop" ->
            FitsWide(RawAdd(MulWiden(s, Alphas(d)), MulWiden(d, Inv(Alphas(s)))))
      [] proc = "DstATop" ->
            FitsWide(RawAdd(MulWiden(d, Alphas(s)), MulWiden(s, Inv(Alphas(d)))))
      [] proc = "Xor" ->
            FitsWide(RawAdd(MulWiden(s, Inv(Alphas(d))), MulWiden(d, Inv(Alphas(s)))))
      [] proc = "Multiply" ->
            /\ FitsWide(RawAdd(MulWiden(s, Inv(Alphas(d))), MulWiden(d, Inv(Alphas(s)))))
            /\ FitsWide(RawAdd(XorWide(s, d), MulWiden(s, d)))
      [] proc = "Difference" ->
            /\ FitsWide(MulWiden(s, Alphas(d)))
            /\ FitsWide(MulWiden(d, Alphas(s)))
      [] proc = "HardLight" -> HardLightFits(s, d, unselected)
      [] proc = "Overlay" -> HardLightFits(d, s, unselected)
      [] proc \in {"Darken", "Lighten"} ->
            /\ FitsWide(MulWiden(s, Alphas(d)))
            /\ FitsWide(MulWiden(d, Alphas(s)))
            /\ FitsWide(MulWiden(d, Inv(Alphas(s))))
            /\ FitsWide(MulWiden(s, Inv(Alphas(d))))
      [] OTHER -> TRUE

\* bw * aa + d * aa.inv() of the generic wrapper
WrapperFits(proc, s, d, cov) ==
    proc # "Plus" =>
        FitsWide(RawAdd(MulWiden(Xfer(proc, s, d), cov), MulWiden(d, Inv(cov))))

AllWideFit(unselected) ==
    Finished =>
        \A i \in Pixels :
            /\ KernelFits(xfermode.proc, src0[i], dst0[i], unselected)
            /\ ~aa0.null
                  => WrapperFits(xfermode.proc, src0[i], dst0[i], LoadAlpha(aa0.data[i]))

\* C3 as stated: no wide intermediate of SrcATop, Xor, Multiply, Difference,
\* HardLight, Darken, Lighten or the generic coverage wrapper leaves
\* 0..65535, the lanes of lite and dark that thenElse drops included.
C3_NoWideOverflowAnyLane == AllWideFit(TRUE)

\* C3 as amended: no wide intermediate of those kernels or of the generic
\* coverage wrapper leaves 0..65535, except that in HardLight and Overlay the
\* lanes of lite, of the doubled product it subtracts and of dark that
\* thenElse does not select may wrap; the sum handed to div255 never does.
C3_NoWideOverflowSelected == AllWideFit(FALSE)

C3_Witness ==
    /\ FinishedAA
    /\ xfermode.proc = "HardLight"
    /\ src0[1] = Pixel(200, 255)
    /\ dst0[1] = Pixel(128, 255)
    /\ HardLightIsLite(src0[1], dst0[1])[1] # 0
    /\ HardLightIsLite(src0[1], dst0[1])[2] = 0
    /\ RawShl1(MulWiden(src0[1], dst0[1]))[3] >= Wide16

\* M(0, d) = d for the pixels of the buffer whose source is transparent black
DstIdentity(modes) ==
    FinishedNoAA /\ xfermode.proc \in modes
        => \A i \in Pixels : src0[i] = Zero => dst[i] = dst0[i]

\* C4 as stated: with a zero source, Dst, DstOver, DstIn, DstOut, DstATop,
\* Xor, SrcOver, Plus, Screen, Exclusion and Difference return the
\* destination byte for byte.
C4_DstIdentityAllListed ==
    DstIdentity({"Dst", "DstOver", "DstIn", "DstOut", "DstATop", "Xor", "SrcOver",
                 "Plus", "Screen", "Exclusion", "Difference"})

\* C4 as amended: with a zero source, Dst, DstOver, DstOut, Xor, SrcOver,
\* Plus, Screen, Exclusion and Difference return the destination byte for
\* byte; DstIn and DstATop return the zero pixel.
C4_DstIdentity ==
    /\ DstIdentity({"Dst", "DstOver", "DstOut", "Xor", "SrcOver", "Plus", "Screen",
                    "Exclusion", "Difference"})
    /\ FinishedNoAA /\ xfermode.proc \in {"DstIn", "DstATop"}
          => \A i \in Pixels : src0[i] = Zero => dst[i] = Zero

C4_Witness ==
    /\ FinishedNoAA
    /\ xfermode.proc = "SrcOver"
    /\ src0[1] = Zero
    /\ dst0[1] = Pixel(128, 200)
    /\ dst[1] = Pixel(128, 200)

\* C5: with a zero destination, Src, SrcOver, SrcOut, Plus, Screen, Xor,
\* Difference and Exclusion return the source byte for byte.
C5_SrcIdentity ==
    FinishedNoAA /\ xfermode.proc \in {"Src", "SrcOver", "SrcOut", "Plus", "Screen",
                                       "Xor", "Difference", "Exclusion"}
        => \A i \in Pixels : dst0[i] = Zero => dst[i] = src0[i]

C5_Witness ==
    /\ FinishedNoAA
    /\ xfermode.proc = "SrcOut"
    /\ dst0[1] = Zero
    /\ src0[1] = Pixel(128, 200)
    /\ dst[1] = Pixel(128, 200)

\* C6: in every mode, a pixel blended under coverage 255 is the mode's
\* result for it, and a pixel blended under coverage 0 is the destination.
C6_CoverageEndpoints ==
    FinishedAA =>
        \A i \in Pixels :
            /\ aa0.data[i] = ByteMax => dst[i] = Xfer(xfermode.proc, src0[i], dst0[i])
            /\ aa0.data[i] = 0 => dst[i] = dst0[i]

C6_Witness ==
    /\ FinishedAA
    /\ xfermode.proc = "Multiply"
    /\ aa0.data[1] = 0
    /\ src0[1] = Pixel(128, 255)
    /\ dst0[1] = Pixel(200, 255)
    /\ dst[1] = dst0[1]
    /\ Xfer("Multiply", src0[1], dst0[1]) # dst0[1]

\* C7: in Plus mode with a coverage buffer every output byte is
\* min(255, d + approxMulDiv255(s, coverage)): the clamp comes after the
\* scaling by the coverage.
C7_PlusClampAfterAA ==
    FinishedAA /\ xfermode.proc = "Plus" =>
        \A i \in Pixels : \A ch \in Lanes :
            dst[i][ch] =
                Min2(ByteMax,
                     dst0[i][ch] + ApproxMulDiv255(src0[i], LoadAlpha(aa0.data[i]))[ch])

\* s = 128 and d = 200 in a channel under coverage 255 give 255; under
\* coverage 128 the clamp of the scaled sum differs from the interpolation of
\* the clamped sum
C7_Witness ==
    /\ FinishedAA
    /\ xfermode.proc = "Plus"
    /\ src0[1] = Pixel(128, 128)
    /\ dst0[1] = Pixel(200, 200)
    /\ aa0.data[1] = ByteMax
    /\ dst[1] = <<ByteMax, 0, ByteMax, ByteMax>>

\* the modes the factory has a case for on this build
HandledModes(bld, legacyGated) ==
    IF bld.arm32 /\ ~bld.neon THEN {}
    ELSE IF legacyGated /\ bld.legacy THEN KernelModes \ LegacyGatedModes
    ELSE KernelModes

FactoryHandles(legacyGated) ==
    pc # "start" =>
        IF requested \in HandledModes(build, legacyGated)
        THEN xfermode.proc = requested /\ xfermode.kMode = requested
        ELSE xfermode = nullptr

\* C8 as stated: the factory returns a handler, bound to the kernel of the
\* requested mode, for exactly the 22 kernel modes and nullptr for every
\* other mode; on 32-bit ARM without NEON it returns nullptr for every mode.
C8_FactoryAll22 == FactoryHandles(FALSE)

\* C8 as amended: as stated on a build without SK_SUPPORT_LEGACY_XFERMODES;
\* on a build with it the factory also returns nullptr for HardLight,
\* Overlay, Darken and Lighten.
C8_Factory == FactoryHandles(TRUE)

C8_Witness ==
    /\ pc = "idle"
    /\ build = [arm32 |-> TRUE, neon |-> TRUE, legacy |-> TRUE]
    /\ requested = "Darken"
    /\ xfermode = nullptr

\* what xfer32 leaves in dst[i]
Blended(proc, i) ==
    IF aa0.null THEN Xfer(proc, src0[i], dst0[i])
                ELSE XferAA(proc, src0[i], dst0[i], LoadAlpha(aa0.data[i]))

\* C9: however the buffer is split into consecutive calls of xfer32, each
\* destination pixel is written at most once, and exactly once by the time
\* the calls are through; a written pixel is the blend of the original dst[i],
\* src[i] and aa[i], an unwritten one is untouched, and src and aa never
\* change.
C9_LengthIndependence ==
    /\ src = src0 /\ aa = aa0
    /\ \A i \in Pixels :
          /\ writes[i] \in {0, 1}
          /\ writes[i] = 0 => dst[i] = dst0[i]
          /\ writes[i] = 1 => dst[i] = Blended(xfermode.proc, i)
          /\ Finished => writes[i] = 1

\* five pixels done as a call of two pixels and a call of three
C9_Witness ==
    /\ Finished
    /\ Len(dst) = 5
    /\ ~aa0.null
    /\ xfermode.proc = "SrcOver"
    /\ calls = <<2, 3>>
    /\ \E i \in Pixels : dst[i] # dst0[i]

\* the plain 8-bit additions and subtractions of the kernel, each on the
\* operands it gets: TRUE when none of the exact results leaves 0..255
NarrowFits(proc, s, d) ==
    CASE proc = "SrcOver" -> FitsNarrow(RawAdd(s, ApproxMulDiv255(d, Inv(Alphas(s)))))
      [] proc = "DstOver" -> FitsNarrow(RawAdd(d, ApproxMulDiv255(s, Inv(Alphas(d)))))
      [] proc = "Screen" -> FitsNarrow(RawAdd(s, ApproxMulDiv255(d, Inv(s))))
      [] proc = "Difference" ->
            /\ FitsNarrow(RawSub(s, DifferenceM(s, d)))
            /\ FitsNarrow(RawSub(d, ZeroAlphas(DifferenceM(s, d))))
            /\ FitsNarrow(RawAdd(Sub8(s, DifferenceM(s, d)),
                                 Sub8(d, ZeroAlphas(DifferenceM(s, d)))))
      [] proc = "Exclusion" ->
            /\ FitsNarrow(RawSub(s, ExclusionP(s, d)))
            /\ FitsNarrow(RawSub(d, ZeroAlphas(ExclusionP(s, d))))
            /\ FitsNarrow(RawAdd(Sub8(s, ExclusionP(s, d)),
                                 Sub8(d, ZeroAlphas(ExclusionP(s, d)))))
      [] proc \in {"HardLight", "Overlay", "Darken", "Lighten"} ->
            /\ FitsNarrow(RawAdd(s, Div255(MulWiden(d, Inv(Alphas(s))))))
            /\ FitsNarrow(RawAdd(d, Div255(MulWiden(s, Inv(Alphas(d))))))
            /\ FitsNarrow(RawSub(Alphas(s), s))
            /\ FitsNarrow(RawSub(Alphas(d), d))
      [] OTHER -> TRUE

\* C10: for premultiplied inputs none of the plain 8-bit additions and
\* subtractions of SrcOver, Screen, Difference, Exclusion, HardLight, Darken
\* and Lighten wraps.
C10_NoNarrowWrap ==
    Finished => \A i \in Pixels : NarrowFits(xfermode.proc, src0[i], dst0[i])

C10_Witness ==
    /\ FinishedNoAA
    /\ xfermode.proc = "Difference"
    /\ src0[1] = Pixel(200, 255)
    /\ dst0[1] = Pixel(128, 255)
    /\ DifferenceM(src0[1], dst0[1])[1] = 128
    /\ dst[1][1] = 72

=============================================================================
